---------------------------- MODULE Spec2Model ----------------------------
(***************************************************************************)
(* Model of the relay publication path of n8n-nodes-nostr-stuff:           *)
(*   src/src/services/applesauce.ts      parseRelayInput, publishEvent     *)
(*   src/nodes/Nostrobots/Nostrobots.node.ts   Nostrobots.execute (send)   *)
(*                                                                         *)
(* A JavaScript string is modelled as a sequence of one-character strings, *)
(* so that split, trim and JSON.parse are computed character by character. *)
(***************************************************************************)
EXTENDS Integers, Sequences, FiniteSets, TLC

VARIABLES
    relays,              \* execute: the raw 'relay' parameter (a string)
    relayArray,          \* execute: parseRelayInput(relays)
    minSuccessfulRelays, \* execute: the 'minSuccessfulRelays' parameter
    i,                   \* execute: the loop index, 1-based
    epc,                 \* execute: position of the caller
    returnData,          \* execute: the records pushed so far
    thrown,              \* execute: the NodeOperationError raised, or NoError
    ppc,                 \* publishEvent, per call: position of the call
    pRelays,             \* publishEvent, per call: the relays argument
    pEvent,              \* publishEvent, per call: the event argument
    transport,           \* per call: state of the promise of relayPool.publish
    sent,                \* per call: what relayPool.publish was handed
    answers,             \* per call: how each endpoint has answered inside the pool
    timer,               \* per call: state of the setTimeout timer
    timers,              \* per call: how many times setTimeout was called
    race,                \* per call: which contender settled Promise.race
    results,             \* per call: the value publishEvent returned
    events,              \* deduplicateEvents: the events argument
    deduplicated         \* deduplicateEvents: the value returned

vars == <<relays, relayArray, minSuccessfulRelays, i, epc, returnData, thrown,
          ppc, pRelays, pEvent, transport, sent, answers, timer, timers, race,
          results, events, deduplicated>>

execVars == <<relays, relayArray, minSuccessfulRelays, i, epc, returnData, thrown>>
callVars == <<ppc, pRelays, pEvent, transport, sent, answers, timer, timers, race,
             results>>
dedupVars == <<events, deduplicated>>

---------------------------------------------------------------------------
(* Bounds of the model.                                                    *)

\* longest raw input string given to parseRelayInput on its own
MaxLen == 6
\* number of input items of one execute run
NumItems == 2
\* longest address list handed to a stand-alone publishEvent call
MaxRelays == 3
\* longest event list given to deduplicateEvents
MaxEvents == 3

---------------------------------------------------------------------------
(* Strings.                                                                *)

\* the characters the raw inputs are built from
Chars == {"[", "]", "\"", ",", " ", "1"}

\* all strings of at most n characters
RECURSIVE StringsUpTo(_)
StringsUpTo(n) ==
    IF n = 0 THEN {<<>>}
    ELSE LET shorter == StringsUpTo(n - 1)
         IN  shorter \cup {Append(s, c) : s \in {t \in shorter : Len(t) = n - 1}, c \in Chars}

IsSpace(c) == c = " "
IsDigit(c) == c = "1"

\* String.prototype.trim
RECURSIVE TrimStart(_)
TrimStart(s) == IF s # <<>> /\ IsSpace(Head(s)) THEN TrimStart(Tail(s)) ELSE s

RECURSIVE TrimEnd(_)
TrimEnd(s) ==
    IF s # <<>> /\ IsSpace(s[Len(s)]) THEN TrimEnd(SubSeq(s, 1, Len(s) - 1)) ELSE s

Trim(s) == TrimEnd(TrimStart(s))

\* String.prototype.split(','): the segments between the commas, the empty
\* string giving the one segment ""
RECURSIVE SplitFrom(_, _, _)
SplitFrom(s, k, cur) ==
    IF k > Len(s) THEN <<cur>>
    ELSE IF s[k] = "," THEN <<cur>> \o SplitFrom(s, k + 1, <<>>)
    ELSE SplitFrom(s, k + 1, Append(cur, s[k]))

Split(s) == SplitFrom(s, 1, <<>>)

MapTrim(segs) == [k \in 1..Len(segs) |-> Trim(segs[k])]

NonEmpty(r) == Len(r) > 0

---------------------------------------------------------------------------
(* JSON.parse over Chars: arrays, strings and numbers, with JSON's         *)
(* whitespace. A value is [type, str, elems]; a failed parse is the        *)
(* SyntaxError JSON.parse throws.                                          *)

JString(s) == [type |-> "string", str |-> s, elems |-> <<>>]
JNumber(s) == [type |-> "number", str |-> s, elems |-> <<>>]
JArray(es) == [type |-> "array", str |-> <<>>, elems |-> es]
JNone == [type |-> "none", str |-> <<>>, elems |-> <<>>]

Fail == [ok |-> FALSE, val |-> JNone, next |-> 0]
Ok(v, n) == [ok |-> TRUE, val |-> v, next |-> n]

RECURSIVE SkipWs(_, _)
SkipWs(s, k) == IF k <= Len(s) /\ IsSpace(s[k]) THEN SkipWs(s, k + 1) ELSE k

\* index of the quote closing a string opened before k, or 0
RECURSIVE CloseQuote(_, _)
CloseQuote(s, k) ==
    IF k > Len(s) THEN 0 ELSE IF s[k] = "\"" THEN k ELSE CloseQuote(s, k + 1)

RECURSIVE EndDigits(_, _)
EndDigits(s, k) == IF k <= Len(s) /\ IsDigit(s[k]) THEN EndDigits(s, k + 1) ELSE k

RECURSIVE ParseValue(_, _)
RECURSIVE ParseElems(_, _, _)

\* a value starting at k (leading whitespace already skipped)
ParseValue(s, k) ==
    IF k > Len(s) THEN Fail
    ELSE IF s[k] = "[" THEN
        LET j == SkipWs(s, k + 1)
        IN  IF j <= Len(s) /\ s[j] = "]" THEN Ok(JArray(<<>>), j + 1)
            ELSE ParseElems(s, j, <<>>)
    ELSE IF s[k] = "\"" THEN
        LET q == CloseQuote(s, k + 1)
        IN  IF q = 0 THEN Fail ELSE Ok(JString(SubSeq(s, k + 1, q - 1)), q + 1)
    ELSE IF IsDigit(s[k]) THEN
        LET e == EndDigits(s, k) IN Ok(JNumber(SubSeq(s, k, e - 1)), e)
    ELSE Fail

\* the elements of an array from k on, acc holding those already read
ParseElems(s, k, acc) ==
    LET v == ParseValue(s, k)
    IN  IF ~v.ok THEN Fail
        ELSE LET j == SkipWs(s, v.next)
                 got == Append(acc, v.val)
             IN  IF j > Len(s) THEN Fail
                 ELSE IF s[j] = "]" THEN Ok(JArray(got), j + 1)
                 ELSE IF s[j] = "," THEN ParseElems(s, SkipWs(s, j + 1), got)
                 ELSE Fail

\* JSON.parse(s): ok = FALSE when it throws
JsonParse(s) ==
    LET v == ParseValue(s, SkipWs(s, 1))
    IN  IF v.ok /\ SkipWs(s, v.next) = Len(s) + 1 THEN v ELSE Fail

---------------------------------------------------------------------------
(* parseRelayInput                                                         *)

\* KeepParsed testing the length of the string itself, not of its trimmed
\* content
KeepParsedUntrimmed(r) == r.type = "string" /\ Len(r.str) > 0

\* the filter callback of the JSON branch
KeepParsed(r) == r.type = "string" /\ Len(Trim(r.str)) > 0

\* parsed.filter(...), the kept elements as strings
FilterParsed(elems) ==
    LET kept == SelectSeq(elems, KeepParsed)
    IN  [k \in 1..Len(kept) |-> kept[k].str]

\* the comma-separated fallback
CommaSeparated(input) == SelectSeq(MapTrim(Split(input)), NonEmpty)

\* parseRelayInput falling back to the comma-separated parse when the JSON
\* array yields no address
parseRelayInputFallsBack(input) ==
    LET parsed == JsonParse(input)
    IN  IF parsed.ok /\ parsed.val.type = "array" /\ FilterParsed(parsed.val.elems) # <<>>
        THEN FilterParsed(parsed.val.elems)
        ELSE CommaSeparated(input)

parseRelayInput(input) ==
    LET parsed == JsonParse(input)
    IN  IF parsed.ok /\ parsed.val.type = "array"
        THEN FilterParsed(parsed.val.elems)
        ELSE CommaSeparated(input)

\* the try block (lines 146-151): JSON.parse throws a SyntaxError on text
\* that is no JSON; an array is filtered and returned; any other value
\* leaves the block without returning
TryJsonBranch(input) ==
    LET parsed == JsonParse(input)
    IN  IF ~parsed.ok THEN [kind |-> "throw", value |-> <<>>]
        ELSE IF parsed.val.type = "array"
        THEN [kind |-> "return", value |-> FilterParsed(parsed.val.elems)]
        ELSE [kind |-> "fallThrough", value |-> <<>>]

\* parseRelayInputOutcome without the catch clause: the SyntaxError of
\* JSON.parse leaves the function
parseRelayInputOutcomeUncaught(input) ==
    LET t == TryJsonBranch(input)
    IN  IF t.kind # "fallThrough" THEN t
        ELSE [kind |-> "return", value |-> CommaSeparated(input)]

\* how a call of parseRelayInput ends: the empty catch clause (line 152)
\* swallows the SyntaxError, and the comma-separated fallback follows
parseRelayInputOutcome(input) ==
    LET t == TryJsonBranch(input)
    IN  IF t.kind = "return" THEN t
        ELSE [kind |-> "return", value |-> CommaSeparated(input)]

---------------------------------------------------------------------------
(* Values of the publish path.                                             *)

\* JavaScript's undefined, where a string could stand
Undefined == "<undefined>"

\* no NodeOperationError was raised
NoError == [required |-> 0, successful |-> 0, total |-> 0, raised |-> FALSE]

\* the relay addresses of the model
Addr == {<<"a">>, <<"1">>}

\* the raw 'relay' parameters execute is run with
RelayInputs ==
    { <<>>,
      <<"a">>,
      <<"a", ",", "1">>,
      <<"[", "\"", "1", "\"", ",", "\"", "a", "\"", "]">> }

\* the 'minSuccessfulRelays' parameters execute is run with
MinChoices == {-1, 0, 1, 2}

\* the address lists a stand-alone publishEvent call is given
RECURSIVE ListsUpTo(_)
ListsUpTo(n) ==
    IF n = 0 THEN {<<>>}
    ELSE LET shorter == ListsUpTo(n - 1)
         IN  shorter \cup {Append(l, a) : l \in {t \in shorter : Len(t) = n - 1}, a \in Addr}

RelayLists == ListsUpTo(MaxRelays)

\* one call of publishEvent per input item
Calls == 1..NumItems

\* the signed event of item k, opaque
EventOf(k) == k

\* what one relay answers inside the pool: the fields publishEvent reads
\* (an accepting relay may add a message, a rejecting relay states its reason)
Response ==
    {r \in [from : Addr, success : BOOLEAN, message : {Undefined, "duplicate"}] :
        ~r.success => r.message # Undefined}

\* how an endpoint has answered inside the pool: not yet, or by accepting
\* or rejecting the event
Answers == {"accepted", "rejected"}

\* what the pool's promise resolves with: an array of responses
ResolvedArray(items) == [kind |-> "array", items |-> items]

\* values the pool's promise can resolve with that publishEvent cannot map:
\* a value with no map method, an array holding a null
Malformed == { [kind |-> "notAnArray", items |-> <<>>],
               [kind |-> "nullElement", items |-> <<>>] }

\* what the pool can throw or reject with: an Error, or a value that is none
PoolErrors == { [isError |-> TRUE, message |-> "relay pool failure"],
                [isError |-> FALSE, message |-> Undefined] }

NoThrow == [isError |-> FALSE, message |-> "<none>"]

\* new Error('Publish timeout')
TimeoutError == [isError |-> TRUE, message |-> "Publish timeout"]

\* the TypeError raised when the resolved value cannot be mapped
TypeErrorOf(v) ==
    [isError |-> TRUE,
     message |-> IF v.kind = "notAnArray" THEN "responses.map is not a function"
                 ELSE "Cannot read properties of null (reading 'from')"]

---------------------------------------------------------------------------
(* publishEvent                                                            *)

\* MapResponse passing the response's message on even when it accepted
MapResponseKeepsMessage(response) ==
    [relay |-> response.from,
     success |-> response.success,
     error |-> response.message]

\* one Delivery Outcome of the success path (lines 57-61)
MapResponse(response) ==
    [relay |-> response.from,
     success |-> response.success,
     error |-> IF response.success THEN Undefined ELSE response.message]

\* responses.map(...) of the success path
MapResponses(responses) == [k \in 1..Len(responses) |-> MapResponse(responses[k])]

\* ErrorText reading the message of whatever was thrown, an Error or not
ErrorTextOfAnything(error) == error.message

\* the reason the catch block reports (line 67)
ErrorText(error) == IF error.isError THEN error.message ELSE "Unknown error"

\* CatchBody reporting one failure for the batch instead of one per relay
CatchBodyOnce(rl, error) ==
    [kind |-> "return",
     value |-> IF rl = <<>> THEN <<>>
               ELSE <<[relay |-> rl[1], success |-> FALSE, error |-> ErrorText(error)]>>,
     error |-> NoThrow]

\* the catch block (lines 62-69): a failure for every relay of the input
CatchBody(rl, error) ==
    [kind |-> "return",
     value |-> [k \in 1..Len(rl) |->
                  [relay |-> rl[k], success |-> FALSE, error |-> ErrorText(error)]],
     error |-> NoThrow]

\* the statements of the try block after the await (lines 56-61): the mapped
\* responses, or the TypeError the mapping raises on a value it cannot map
TryBody(value) ==
    IF value.kind # "array"
    THEN [kind |-> "throw", value |-> <<>>, error |-> TypeErrorOf(value)]
    ELSE [kind |-> "return", value |-> MapResponses(value.items), error |-> NoThrow]

\* Completion with the mapping moved out of the try block: a TypeError of the
\* mapping leaves publishEvent
CompletionUncaught(rl, settled) ==
    IF settled.how = "fulfilled"
    THEN TryBody(settled.value)
    ELSE CatchBody(rl, settled.error)

\* how publishEvent completes once Promise.race has settled: settled is
\* [how |-> "fulfilled", value |-> v] or [how |-> "rejected", error |-> e]
Completion(rl, settled) ==
    IF settled.how = "fulfilled"
    THEN LET t == TryBody(settled.value)
         IN  IF t.kind = "return" THEN t ELSE CatchBody(rl, t.error)
    ELSE CatchBody(rl, settled.error)

Fulfilled(v) == [how |-> "fulfilled", value |-> v, error |-> NoThrow]
Rejected(e) == [how |-> "rejected", value |-> ResolvedArray(<<>>), error |-> e]

\* publishEvent leaves the await and completes: it returns a value, or an
\* exception leaves it
Complete(c, done) ==
    /\ ppc' = [ppc EXCEPT ![c] = IF done.kind = "return" THEN "returned" ELSE "raised"]
    /\ results' = [results EXCEPT ![c] = IF done.kind = "return" THEN done.value ELSE <<>>]

\* PublishCall with an early return for the empty address list: nothing is
\* handed to the pool and no timer is armed
PublishCallEarlyReturn(c, ev, rl, syncErr) ==
    /\ ppc[c] = "idle"
    /\ pRelays' = [pRelays EXCEPT ![c] = rl]
    /\ pEvent' = [pEvent EXCEPT ![c] = ev]
    /\ answers' = [answers EXCEPT ![c] = [k \in 1..Len(rl) |-> "none"]]
    /\ IF rl = <<>>
       THEN /\ Complete(c, [kind |-> "return", value |-> <<>>, error |-> NoThrow])
            /\ UNCHANGED <<sent, transport, timer, timers, race>>
       ELSE /\ sent' = [sent EXCEPT ![c] = Append(@, [relays |-> rl, event |-> ev])]
            /\ IF syncErr # NoThrow
               THEN /\ transport' = [transport EXCEPT ![c] = "threw"]
                    /\ Complete(c, CatchBody(rl, syncErr))
                    /\ UNCHANGED <<timer, timers, race>>
               ELSE /\ transport' = [transport EXCEPT ![c] = "pending"]
                    /\ timer' = [timer EXCEPT ![c] = "armed"]
                    /\ timers' = [timers EXCEPT ![c] = @ + 1]
                    /\ race' = [race EXCEPT ![c] = "pending"]
                    /\ ppc' = [ppc EXCEPT ![c] = "awaiting"]
                    /\ UNCHANGED results

\* PublishCall writing into the event it was given before handing it on
PublishCallStampsEvent(c, ev, rl, syncErr) ==
    /\ ppc[c] = "idle"
    /\ pRelays' = [pRelays EXCEPT ![c] = rl]
    /\ pEvent' = [pEvent EXCEPT ![c] = ev + NumItems]
    /\ sent' = [sent EXCEPT ![c] = Append(@, [relays |-> rl, event |-> ev + NumItems])]
    /\ answers' = [answers EXCEPT ![c] = [k \in 1..Len(rl) |-> "none"]]
    /\ IF syncErr # NoThrow
       THEN /\ transport' = [transport EXCEPT ![c] = "threw"]
            /\ Complete(c, CatchBody(rl, syncErr))
            /\ UNCHANGED <<timer, timers, race>>
       ELSE /\ transport' = [transport EXCEPT ![c] = "pending"]
            /\ timer' = [timer EXCEPT ![c] = "armed"]
            /\ timers' = [timers EXCEPT ![c] = @ + 1]
            /\ race' = [race EXCEPT ![c] = "pending"]
            /\ ppc' = [ppc EXCEPT ![c] = "awaiting"]
            /\ UNCHANGED results

\* publishEvent(ev, rl, timeoutMs) up to its await: relayPool.publish is
\* invoked first; if it throws (syncErr # NoThrow) no timer is created and the
\* catch block returns; otherwise the timer is armed and the call suspends
\* on Promise.race
PublishCall(c, ev, rl, syncErr) ==
    /\ ppc[c] = "idle"
    /\ pRelays' = [pRelays EXCEPT ![c] = rl]
    /\ pEvent' = [pEvent EXCEPT ![c] = ev]
    /\ sent' = [sent EXCEPT ![c] = Append(@, [relays |-> rl, event |-> ev])]
    /\ answers' = [answers EXCEPT ![c] = [k \in 1..Len(rl) |-> "none"]]
    /\ IF syncErr # NoThrow
       THEN /\ transport' = [transport EXCEPT ![c] = "threw"]
            /\ Complete(c, CatchBody(rl, syncErr))
            /\ UNCHANGED <<timer, timers, race>>
       ELSE /\ transport' = [transport EXCEPT ![c] = "pending"]
            /\ timer' = [timer EXCEPT ![c] = "armed"]
            /\ timers' = [timers EXCEPT ![c] = @ + 1]
            /\ race' = [race EXCEPT ![c] = "pending"]
            /\ ppc' = [ppc EXCEPT ![c] = "awaiting"]
            /\ UNCHANGED results

\* the pool's promise settles: the first contender to settle decides the
\* race and resumes publishEvent; a promise settling after the race is
\* decided resumes nothing
TransportSettles(c, state, settled) ==
    /\ transport' = [transport EXCEPT ![c] = state]
    /\ IF race[c] = "pending"
       THEN /\ race' = [race EXCEPT ![c] = "transport"]
            /\ Complete(c, Completion(pRelays[c], settled))
       ELSE UNCHANGED <<race, ppc, results>>
    /\ UNCHANGED <<pRelays, pEvent, sent, answers, timer, timers>>

\* EndpointAnswers with a deadline that starts afresh at every answer: a new
\* timer is created while the call is waiting
EndpointAnswersRestartsTimer(c, k, r) ==
    /\ transport[c] = "pending"
    /\ k \in 1..Len(pRelays[c])
    /\ answers[c][k] = "none"
    /\ answers' = [answers EXCEPT ![c][k] = r]
    /\ timers' = [timers EXCEPT ![c] = IF timer[c] = "armed" THEN @ + 1 ELSE @]
    /\ UNCHANGED <<ppc, pRelays, pEvent, transport, sent, timer, race, results>>

\* inside the pool, endpoint k answers
EndpointAnswers(c, k, r) ==
    /\ transport[c] = "pending"
    /\ k \in 1..Len(pRelays[c])
    /\ answers[c][k] = "none"
    /\ answers' = [answers EXCEPT ![c][k] = r]
    /\ UNCHANGED <<ppc, pRelays, pEvent, transport, sent, timer, timers, race, results>>

\* the arrays the pool can resolve with: one response per endpoint, in the
\* order of the endpoints, accepted where the endpoint accepted
ResponsesFor(ans) ==
    {v \in [1..Len(ans) -> Response] :
        \A k \in 1..Len(ans) : v[k].success <=> (ans[k] = "accepted")}

\* the pool's promise resolves with one response per endpoint, once every
\* endpoint has answered
TransportResolves(c, v) ==
    /\ transport[c] = "pending"
    /\ \A k \in 1..Len(pRelays[c]) : answers[c][k] # "none"
    /\ v \in ResponsesFor(answers[c])
    /\ TransportSettles(c, "resolved", Fulfilled(ResolvedArray(v)))

\* the pool's promise resolves with a value that is no array of responses
TransportResolvesMalformed(c, v) ==
    /\ transport[c] = "pending"
    /\ TransportSettles(c, "resolved", Fulfilled(v))

\* TransportRejects followed by a second attempt: the list is handed to the
\* pool again and the call keeps waiting
TransportRejectsRetries(c, e) ==
    /\ transport[c] = "pending"
    /\ Len(sent[c]) < 2
    /\ sent' = [sent EXCEPT ![c] = Append(@, [relays |-> pRelays[c], event |-> pEvent[c]])]
    /\ UNCHANGED <<ppc, pRelays, pEvent, transport, answers, timer, timers, race, results>>

\* the pool's promise rejects
TransportRejects(c, e) ==
    /\ transport[c] = "pending"
    /\ TransportSettles(c, "rejected", Rejected(e))

\* TimerFires writing the timeout failures whether or not the race is decided
TimerFiresOverwrites(c) ==
    /\ timer[c] = "armed"
    /\ timer' = [timer EXCEPT ![c] = "fired"]
    /\ race' = [race EXCEPT ![c] = IF @ = "pending" THEN "timer" ELSE @]
    /\ Complete(c, Completion(pRelays[c], Rejected(TimeoutError)))
    /\ UNCHANGED <<pRelays, pEvent, transport, sent, answers, timers>>

\* TimerFires whose rejection never reaches the race
TimerFiresUnheard(c) ==
    /\ timer[c] = "armed"
    /\ timer' = [timer EXCEPT ![c] = "fired"]
    /\ UNCHANGED <<race, ppc, results, pRelays, pEvent, transport, sent, answers, timers>>

\* TimerFires giving credit to the endpoints that had accepted in time
TimerFiresPartialCredit(c) ==
    /\ timer[c] = "armed"
    /\ timer' = [timer EXCEPT ![c] = "fired"]
    /\ IF race[c] = "pending"
       THEN /\ race' = [race EXCEPT ![c] = "timer"]
            /\ ppc' = [ppc EXCEPT ![c] = "returned"]
            /\ results' = [results EXCEPT ![c] =
                  [k \in 1..Len(pRelays[c]) |->
                     IF answers[c][k] = "accepted"
                     THEN [relay |-> pRelays[c][k], success |-> TRUE, error |-> Undefined]
                     ELSE [relay |-> pRelays[c][k], success |-> FALSE,
                           error |-> ErrorText(TimeoutError)]]]
       ELSE UNCHANGED <<race, ppc, results>>
    /\ UNCHANGED <<pRelays, pEvent, transport, sent, answers, timers>>

\* TimerFires of one timer shared by every call: it rejects every race that
\* is still pending
TimerFiresShared(c) ==
    /\ timer[c] = "armed"
    /\ timer' = [timer EXCEPT ![c] = "fired"]
    /\ race' = [d \in Calls |-> IF race[d] = "pending" THEN "timer" ELSE race[d]]
    /\ ppc' = [d \in Calls |-> IF race[d] = "pending" THEN "returned" ELSE ppc[d]]
    /\ results' = [d \in Calls |->
          IF race[d] = "pending"
          THEN Completion(pRelays[d], Rejected(TimeoutError)).value
          ELSE results[d]]
    /\ UNCHANGED <<pRelays, pEvent, transport, sent, answers, timers>>

\* the setTimeout callback runs (line 52): reject(new Error('Publish timeout'))
TimerFires(c) ==
    /\ timer[c] = "armed"
    /\ timer' = [timer EXCEPT ![c] = "fired"]
    /\ IF race[c] = "pending"
       THEN /\ race' = [race EXCEPT ![c] = "timer"]
            /\ Complete(c, Completion(pRelays[c], Rejected(TimeoutError)))
       ELSE UNCHANGED <<race, ppc, results>>
    /\ UNCHANGED <<pRelays, pEvent, transport, sent, answers, timers>>

---------------------------------------------------------------------------
(* Nostrobots.execute, operation 'send'                                    *)

\* results.filter((r) => r.success).length (line 417)
SuccessCount(rs) == Len(SelectSeq(rs, LAMBDA r : r.success))

\* ResultRecord reporting every outcome as a success
ResultRecordCountsAll(ev, rs, rl) ==
    [event |-> ev, sendResults |-> rs,
     successCount |-> Len(rs), totalRelays |-> Len(rl)]

\* the record execute pushes for an item (lines 426-431)
ResultRecord(ev, rs, rl) ==
    [event |-> ev, sendResults |-> rs,
     successCount |-> SuccessCount(rs), totalRelays |-> Len(rl)]

\* the NodeOperationError of the threshold check (lines 419-422)
ThresholdError(min, rs, rl) ==
    [required |-> min, successful |-> SuccessCount(rs), total |-> Len(rl),
     raised |-> TRUE]

\* BelowThreshold failing the operation also when the count just meets the
\* minimum
BelowThresholdInclusive(count, min) == count <= min

\* BelowThreshold failing the operation also whenever nothing succeeded
BelowThresholdOrNone(count, min) == count < min \/ count = 0

\* the threshold test (line 418)
BelowThreshold(count, min) == count < min

\* lines 406-414 for item i: read the parameters, parse the relay input and
\* call publishEvent with the item's signed event; execute then awaits it
ExecuteDispatch(raw, min, syncErr) ==
    /\ epc = "loop"
    /\ i <= NumItems
    /\ relays' = raw
    /\ relayArray' = parseRelayInput(raw)
    /\ minSuccessfulRelays' = min
    /\ PublishCall(i, EventOf(i), parseRelayInput(raw), syncErr)
    /\ epc' = "awaitPublish"
    /\ UNCHANGED <<i, returnData, thrown>>
    /\ UNCHANGED dedupVars

\* ExecuteResume going on to the next item when an item misses its
\* threshold, without a record for it
ExecuteResumeSkipsFailed ==
    /\ epc = "awaitPublish"
    /\ ppc[i] \in {"returned", "raised"}
    /\ IF ppc[i] = "raised"
       THEN /\ epc' = "threw"
            /\ UNCHANGED <<i, returnData, thrown>>
       ELSE IF BelowThreshold(SuccessCount(results[i]), minSuccessfulRelays)
       THEN /\ i' = i + 1
            /\ epc' = "loop"
            /\ UNCHANGED <<returnData, thrown>>
       ELSE /\ returnData' = Append(returnData, ResultRecord(pEvent[i], results[i], relayArray))
            /\ i' = i + 1
            /\ epc' = "loop"
            /\ UNCHANGED thrown
    /\ UNCHANGED <<relays, relayArray, minSuccessfulRelays>>
    /\ UNCHANGED <<callVars, dedupVars>>

\* lines 414-432 once publishEvent has completed: the threshold check, then
\* the push of the item's record and the next iteration
ExecuteResume ==
    /\ epc = "awaitPublish"
    /\ ppc[i] \in {"returned", "raised"}
    /\ IF ppc[i] = "raised"
       THEN /\ epc' = "threw"
            /\ UNCHANGED <<i, returnData, thrown>>
       ELSE IF BelowThreshold(SuccessCount(results[i]), minSuccessfulRelays)
       THEN /\ epc' = "threw"
            /\ thrown' = ThresholdError(minSuccessfulRelays, results[i], relayArray)
            /\ UNCHANGED <<i, returnData>>
       ELSE /\ returnData' = Append(returnData, ResultRecord(pEvent[i], results[i], relayArray))
            /\ i' = i + 1
            /\ epc' = "loop"
            /\ UNCHANGED thrown
    /\ UNCHANGED <<relays, relayArray, minSuccessfulRelays>>
    /\ UNCHANGED <<callVars, dedupVars>>

\* line 436: the loop is over and execute returns the records
ExecuteReturn ==
    /\ epc = "loop"
    /\ i > NumItems
    /\ epc' = "returned"
    /\ UNCHANGED <<relays, relayArray, minSuccessfulRelays, i, returnData, thrown>>
    /\ UNCHANGED <<callVars, dedupVars>>

---------------------------------------------------------------------------
(* deduplicateEvents                                                       *)

\* the events: two ids, and two contents so that events with one id can
\* differ
EventIds == {"x", "y"}
EventContents == {"p", "q"}
NostrEvents == [id : EventIds, content : EventContents]

\* all event lists of at most n events
RECURSIVE EventListsUpTo(_)
EventListsUpTo(n) ==
    IF n = 0 THEN {<<>>}
    ELSE LET shorter == EventListsUpTo(n - 1)
         IN  shorter \cup {Append(l, e) : l \in {m \in shorter : Len(m) = n - 1},
                                          e \in NostrEvents}

\* DedupLoop letting a later event with a seen id take the place of the one
\* kept for that id
RECURSIVE DedupLoopKeepsLatest(_, _, _, _)
DedupLoopKeepsLatest(evs, k, seen, out) ==
    IF k > Len(evs) THEN out
    ELSE IF evs[k].id \notin seen
    THEN DedupLoopKeepsLatest(evs, k + 1, seen \cup {evs[k].id}, Append(out, evs[k]))
    ELSE DedupLoopKeepsLatest(evs, k + 1, seen,
            [m \in 1..Len(out) |-> IF out[m].id = evs[k].id THEN evs[k] ELSE out[m]])

\* the for loop (lines 130-135) from the k-th event on, with the set seen
\* and the array deduplicated (out) built so far
RECURSIVE DedupLoop(_, _, _, _)
DedupLoop(evs, k, seen, out) ==
    IF k > Len(evs) THEN out
    ELSE IF evs[k].id \notin seen
    THEN DedupLoop(evs, k + 1, seen \cup {evs[k].id}, Append(out, evs[k]))
    ELSE DedupLoop(evs, k + 1, seen, out)

deduplicateEvents(evs) == DedupLoop(evs, 1, {}, <<>>)

---------------------------------------------------------------------------
(* Specifications.                                                         *)

CallsIdle ==
    /\ ppc = [c \in Calls |-> "idle"]
    /\ pRelays = [c \in Calls |-> <<>>]
    /\ pEvent = [c \in Calls |-> 0]
    /\ transport = [c \in Calls |-> "notCalled"]
    /\ sent = [c \in Calls |-> <<>>]
    /\ answers = [c \in Calls |-> <<>>]
    /\ timer = [c \in Calls |-> "none"]
    /\ timers = [c \in Calls |-> 0]
    /\ race = [c \in Calls |-> "none"]
    /\ results = [c \in Calls |-> <<>>]

\* deduplicateEvents has not been called
DedupIdle ==
    /\ events = <<>>
    /\ deduplicated = <<>>

\* the events of the pool and of the timers, for any call
Environment ==
    \E c \in Calls :
        \/ \E k \in 1..Len(pRelays[c]), r \in Answers : EndpointAnswers(c, k, r)
        \/ \E v \in ResponsesFor(answers[c]) : TransportResolves(c, v)
        \/ \E v \in Malformed : TransportResolvesMalformed(c, v)
        \/ \E e \in PoolErrors : TransportRejects(c, e)
        \/ TimerFires(c)

\* execute runs over NumItems items
Init ==
    /\ relays = <<>>
    /\ relayArray = <<>>
    /\ minSuccessfulRelays = 0
    /\ i = 1
    /\ epc = "loop"
    /\ returnData = <<>>
    /\ thrown = NoError
    /\ CallsIdle
    /\ DedupIdle

Next ==
    \/ \E raw \in RelayInputs, min \in MinChoices, e \in {NoThrow} \cup PoolErrors :
          ExecuteDispatch(raw, min, e)
    \/ ExecuteResume
    \/ ExecuteReturn
    \/ Environment /\ UNCHANGED <<execVars, dedupVars>>

Spec == Init /\ [][Next]_vars

\* one publishEvent call on its own, for any address list
InitPublish ==
    /\ relays = <<>>
    /\ relayArray = <<>>
    /\ minSuccessfulRelays = 0
    /\ i = 1
    /\ epc = "direct"
    /\ returnData = <<>>
    /\ thrown = NoError
    /\ CallsIdle
    /\ DedupIdle

PublishDirect(rl, syncErr) ==
    /\ epc = "direct"
    /\ PublishCall(1, EventOf(1), rl, syncErr)
    /\ UNCHANGED <<execVars, dedupVars>>

NextPublish ==
    \/ \E rl \in RelayLists, e \in {NoThrow} \cup PoolErrors : PublishDirect(rl, e)
    \/ Environment /\ UNCHANGED <<execVars, dedupVars>>

SpecPublish == InitPublish /\ [][NextPublish]_vars

\* the timer of a pending call eventually fires: the event loop runs every
\* timer that is due
FairPublish ==
    SpecPublish /\ \A c \in Calls : WF_vars(TimerFires(c) /\ UNCHANGED <<execVars, dedupVars>>)

\* the address lists of the calls that run concurrently
ConcurrentLists == {<<>>, << <<"a">> >>, << <<"1">> >>}

\* publishEvent called once for every c in Calls, the calls started in any
\* order and at any moment, so that their awaits overlap
InitConcurrent ==
    /\ relays = <<>>
    /\ relayArray = <<>>
    /\ minSuccessfulRelays = 0
    /\ i = 1
    /\ epc = "concurrent"
    /\ returnData = <<>>
    /\ thrown = NoError
    /\ CallsIdle
    /\ DedupIdle

PublishConcurrent(c, rl, syncErr) ==
    /\ epc = "concurrent"
    /\ PublishCall(c, EventOf(c), rl, syncErr)
    /\ UNCHANGED <<execVars, dedupVars>>

NextConcurrent ==
    \/ \E c \in Calls, rl \in ConcurrentLists, e \in {NoThrow} \cup PoolErrors :
          PublishConcurrent(c, rl, e)
    \/ Environment /\ UNCHANGED <<execVars, dedupVars>>

SpecConcurrent == InitConcurrent /\ [][NextConcurrent]_vars

\* deduplicateEvents on its own, for any list of at most MaxEvents events
InitDedup ==
    /\ relays = <<>>
    /\ relayArray = <<>>
    /\ minSuccessfulRelays = 0
    /\ i = 1
    /\ epc = "dedup"
    /\ returnData = <<>>
    /\ thrown = NoError
    /\ CallsIdle
    /\ events \in EventListsUpTo(MaxEvents)
    /\ deduplicated = <<>>

DedupCall ==
    /\ epc = "dedup"
    /\ deduplicated' = deduplicateEvents(events)
    /\ epc' = "deduped"
    /\ UNCHANGED <<relays, relayArray, minSuccessfulRelays, i, returnData, thrown>>
    /\ UNCHANGED <<callVars, events>>

NextDedup == DedupCall

SpecDedup == InitDedup /\ [][NextDedup]_vars

\* parseRelayInput on its own, for any raw input of at most MaxLen characters
InitNormalize ==
    /\ relays \in StringsUpTo(MaxLen)
    /\ relayArray = <<>>
    /\ minSuccessfulRelays = 0
    /\ i = 1
    /\ epc = "parse"
    /\ returnData = <<>>
    /\ thrown = NoError
    /\ CallsIdle
    /\ DedupIdle

ParseCall ==
    /\ epc = "parse"
    /\ IF parseRelayInputOutcome(relays).kind = "return"
       THEN /\ relayArray' = parseRelayInput(relays)
            /\ epc' = "parsed"
       ELSE /\ epc' = "parseThrew"
            /\ UNCHANGED relayArray
    /\ UNCHANGED <<relays, minSuccessfulRelays, i, returnData, thrown>>
    /\ UNCHANGED <<callVars, dedupVars>>

NextNormalize == ParseCall

SpecNormalize == InitNormalize /\ [][NextNormalize]_vars

---------------------------------------------------------------------------
(* Claims about publishEvent, checked under SpecPublish.                   *)

\* C1: a publishEvent call that has returned holds exactly one outcome per
\* input address: the returned sequence is as long as the address list,
\* whether the pool answered, rejected, threw or the timer fired first.
C1_OneOutcomePerAddress ==
    \A c \in Calls : ppc[c] = "returned" => Len(results[c]) = Len(pRelays[c])

\* C1 witness: a call with a duplicated address has returned on the timeout
\* path while the pool never settled.
C1_Witness ==
    \E c \in Calls :
        /\ ppc[c] = "returned"
        /\ race[c] = "timer"
        /\ transport[c] = "pending"
        /\ Len(pRelays[c]) >= 2
        /\ pRelays[c][1] = pRelays[c][2]

\* C2: when the timer decided the race, the call returns for every address,
\* in input order, a failed outcome carrying that address and one and the
\* same non-empty error text, whatever the endpoints had answered before and
\* whatever the pool does afterwards.
C2_TimeoutFailsAll ==
    \A c \in Calls :
        race[c] = "timer" =>
            /\ ppc[c] = "returned"
            /\ Len(results[c]) = Len(pRelays[c])
            /\ \A k \in 1..Len(results[c]) :
                  /\ results[c][k].relay = pRelays[c][k]
                  /\ results[c][k].success = FALSE
                  /\ results[c][k].error = "Publish timeout"

\* C2 witness: the timer fired after one endpoint had accepted, and the pool
\* resolved after the deadline.
C2_Witness ==
    \E c \in Calls :
        /\ race[c] = "timer"
        /\ transport[c] = "resolved"
        /\ Len(pRelays[c]) >= 2
        /\ \E k \in 1..Len(pRelays[c]) : answers[c][k] = "accepted"

\* C3: no exception leaves publishEvent: a call never ends raised, it ends
\* by returning outcomes.
C3_NeverRaises ==
    \A c \in Calls : ppc[c] # "raised"

\* C3 witness: the pool resolved with a value that cannot be mapped and the
\* call returned the TypeError as the error of every address.
C3_Witness ==
    \E c \in Calls :
        /\ ppc[c] = "returned"
        /\ race[c] = "transport"
        /\ transport[c] = "resolved"
        /\ Len(results[c]) >= 1
        /\ \A k \in 1..Len(results[c]) :
              /\ results[c][k].success = FALSE
              /\ results[c][k].error = "responses.map is not a function"

\* C4: when the pool resolves first, with one response per endpoint, the
\* call returns the responses mapped one to one in the pool's order: the
\* outcome's relay is the response's source, its success the response's, its
\* error the response's message when not accepted and absent when accepted;
\* when every endpoint accepted, every outcome is a success.
C4_ResponsesMappedInOrder ==
    [][\A c \in Calls :
          (race[c] = "pending" /\ transport[c] = "pending" /\ transport'[c] = "resolved") =>
          \A v \in ResponsesFor(answers[c]) :
          TransportResolves(c, v) =>
              /\ ppc'[c] = "returned"
              /\ Len(results'[c]) = Len(v)
              /\ \A k \in 1..Len(v) :
                    /\ results'[c][k].relay = v[k].from
                    /\ results'[c][k].success = v[k].success
                    /\ v[k].success => results'[c][k].error = Undefined
                    /\ ~v[k].success => results'[c][k].error = v[k].message
              /\ (\A k \in 1..Len(v) : v[k].success) =>
                    Cardinality({k \in 1..Len(results'[c]) : results'[c][k].success})
                        = Len(pRelays[c])]_vars

\* C4 witness: three endpoints, the second rejecting with "duplicate", the
\* others accepting, answered in time.
C4_Witness ==
    \E c \in Calls :
        /\ ppc[c] = "returned"
        /\ race[c] = "transport"
        /\ pRelays[c] = << <<"a">>, <<"1">>, <<"a">> >>
        /\ results[c] = << [relay |-> <<"a">>, success |-> TRUE, error |-> Undefined],
                           [relay |-> <<"1">>, success |-> FALSE, error |-> "duplicate"],
                           [relay |-> <<"a">>, success |-> TRUE, error |-> Undefined] >>

\* C5 as stated: a call with the empty address list has returned at once,
\* nothing was handed to the pool and nothing is waited for.
C5_EmptyListReturnsAtOnce ==
    \A c \in Calls :
        (ppc[c] # "idle" /\ pRelays[c] = <<>>) =>
            /\ ppc[c] = "returned"
            /\ sent[c] = <<>>
            /\ transport[c] = "notCalled"
            /\ timer[c] = "none"

\* C5 as amended: a call with the empty address list hands the empty list to
\* the pool once, like any other list, and returns only once the pool has
\* thrown or settled or the timer has fired; the value returned is then the
\* empty sequence.
C5_EmptyListStillDispatched ==
    \A c \in Calls :
        (ppc[c] # "idle" /\ pRelays[c] = <<>>) =>
            /\ Len(sent[c]) = 1
            /\ sent[c][1].relays = <<>>
            /\ transport[c] # "notCalled"
            /\ ppc[c] = "awaiting" => (race[c] = "pending" /\ timer[c] = "armed")
            /\ ppc[c] = "returned" =>
                  /\ results[c] = <<>>
                  /\ race[c] \in {"transport", "timer"} \/ transport[c] = "threw"

\* C5 witness: a call with the empty address list returned when its timer
\* fired, the pool still pending.
C5_Witness ==
    \E c \in Calls :
        /\ pRelays[c] = <<>>
        /\ Len(sent[c]) = 1
        /\ ppc[c] = "returned"
        /\ race[c] = "timer"
        /\ transport[c] = "pending"

\* C6: the first contender to settle decides the call: the call returns at
\* that moment without waiting for the other, and once it has returned no
\* later event (the timer firing, the pool resolving or rejecting) changes
\* the returned outcomes, the call's arguments or the caller's state.
C6_LoserIgnored ==
    /\ [][\A c \in Calls :
            ppc[c] = "returned" =>
                /\ ppc'[c] = "returned"
                /\ results'[c] = results[c]
                /\ pRelays'[c] = pRelays[c]
                /\ pEvent'[c] = pEvent[c]
                /\ (timer'[c] # timer[c] \/ transport'[c] # transport[c]) =>
                      UNCHANGED <<execVars, ppc, results>>]_vars
    /\ [](\A c \in Calls : race[c] \in {"transport", "timer"} => ppc[c] = "returned")

\* C6 witness: the pool won the race with an accepted endpoint and the timer
\* fired afterwards.
C6_Witness ==
    \E c \in Calls :
        /\ ppc[c] = "returned"
        /\ race[c] = "transport"
        /\ timer[c] = "fired"
        /\ \E k \in 1..Len(results[c]) : results[c][k].success

\* C8: every suspended call eventually returns, and it never stays suspended
\* past the firing of its timer, even when some endpoint never answers.
C8_EventuallyReturns ==
    /\ \A c \in Calls : (ppc[c] = "awaiting") ~> (ppc[c] = "returned")
    /\ [](\A c \in Calls : timer[c] = "fired" => ppc[c] = "returned")

\* C8 witness: a call returned on its timer while an endpoint had not
\* answered and the pool's promise was still pending.
C8_Witness ==
    \E c \in Calls :
        /\ ppc[c] = "returned"
        /\ timer[c] = "fired"
        /\ transport[c] = "pending"
        /\ \E k \in 1..Len(pRelays[c]) : answers[c][k] = "none"
        /\ \E k \in 1..Len(pRelays[c]) : answers[c][k] = "accepted"

---------------------------------------------------------------------------
(* Claims about Nostrobots.execute, checked under Spec.                    *)

\* the number of successful outcomes of a returned sequence
Successes(rs) == Cardinality({k \in 1..Len(rs) : rs[k].success})

\* C7: once publishEvent has returned for an item, execute fails if and only
\* if the number of successful outcomes is below minSuccessfulRelays, and the
\* error then states the required count, the successful count and the number
\* of addresses; otherwise no error is raised and the item's record is pushed.
C7_ThresholdDecides ==
    /\ epc = "threw" =>
          /\ Successes(results[i]) < minSuccessfulRelays
          /\ thrown = [required |-> minSuccessfulRelays,
                       successful |-> Successes(results[i]),
                       total |-> Len(relayArray),
                       raised |-> TRUE]
          /\ Len(returnData) = i - 1
    /\ (epc \in {"loop", "returned"} /\ i > 1) =>
          /\ Successes(results[i - 1]) >= minSuccessfulRelays
          /\ thrown = NoError
          /\ Len(returnData) = i - 1
          /\ returnData[i - 1].sendResults = results[i - 1]
    /\ epc = "awaitPublish" => (thrown = NoError /\ Len(returnData) = i - 1)

\* C7 witness: two addresses, one successful outcome, two required: execute
\* failed with required 2, successful 1, total 2.
C7_Witness ==
    /\ epc = "threw"
    /\ thrown = [required |-> 2, successful |-> 1, total |-> 2, raised |-> TRUE]

---------------------------------------------------------------------------
(* Claims about parseRelayInput, checked under SpecNormalize.              *)

\* the raw input parses as JSON and the parsed value is an array
IsJsonArray(s) == JsonParse(s).ok /\ JsonParse(s).val.type = "array"

\* whether w stands in s at position p
OccursAt(s, w, p) == p + Len(w) - 1 <= Len(s) /\ SubSeq(s, p, p + Len(w) - 1) = w

\* whether the strings out[k..] stand in s one after another, without
\* overlap, from position p on
RECURSIVE InOrderFrom(_, _, _, _)
InOrderFrom(s, out, k, p) ==
    IF k > Len(out) THEN TRUE
    ELSE IF p > Len(s) THEN FALSE
    ELSE IF OccursAt(s, out[k], p)
         THEN InOrderFrom(s, out, k + 1, p + Len(out[k]))
         ELSE InOrderFrom(s, out, k, p + 1)

HasSpaceAtAnEnd(r) == r # <<>> /\ (r[1] = " " \/ r[Len(r)] = " ")

\* C9 as stated: every address returned, in either branch, is a non-empty
\* string without leading or trailing whitespace, and the addresses stand in
\* the order of the input.
C9_AddressesTrimmed ==
    epc = "parsed" =>
        /\ \A k \in 1..Len(relayArray) :
              relayArray[k] # <<>> /\ ~HasSpaceAtAnEnd(relayArray[k])
        /\ InOrderFrom(relays, relayArray, 1, 1)

\* C9 as amended: every address returned has non-empty trimmed content and
\* the addresses stand in the order of the input; an address of the
\* comma-separated branch has no leading or trailing whitespace, an address
\* of the JSON branch is the array's element as written, its whitespace kept.
C9_AddressesHaveContent ==
    epc = "parsed" =>
        /\ \A k \in 1..Len(relayArray) :
              /\ \E p \in 1..Len(relayArray[k]) : relayArray[k][p] # " "
              /\ ~IsJsonArray(relays) => ~HasSpaceAtAnEnd(relayArray[k])
        /\ InOrderFrom(relays, relayArray, 1, 1)

\* C9 witness: the JSON array [" 1"] gives the address " 1", its leading
\* space kept.
C9_Witness ==
    /\ epc = "parsed"
    /\ relays = <<"[", "\"", " ", "1", "\"", "]">>
    /\ relayArray = << <<" ", "1">> >>

\* the positions of s that bound its comma-separated segments
Bounds(s) == {0, Len(s) + 1} \cup {p \in 1..Len(s) : s[p] = ","}

\* the segment of s that starts after the bound a
SegmentAfter(s, a) ==
    LET b == CHOOSE q \in Bounds(s) : q > a /\ \A r \in Bounds(s) : r > a => q <= r
    IN  SubSeq(s, a + 1, b - 1)

\* the bounds of s after which a segment with content starts, in order
RECURSIVE ContentStarts(_, _)
ContentStarts(s, a) ==
    IF a > Len(s) THEN <<>>
    ELSE LET rest == IF \E q \in Bounds(s) : q > a /\ q <= Len(s)
                     THEN ContentStarts(s, CHOOSE q \in Bounds(s) :
                                              q > a /\ \A r \in Bounds(s) : r > a => q <= r)
                     ELSE <<>>
         IN  IF \E p \in 1..Len(SegmentAfter(s, a)) : SegmentAfter(s, a)[p] # " "
             THEN <<a>> \o rest ELSE rest

\* C10: when the input parses as a JSON array the result is the array's
\* string elements with non-empty trimmed content, in order, also when that
\* is empty; otherwise it is the raw input's comma-separated segments,
\* trimmed, the empty ones dropped, in order.
C10_BranchChoice ==
    epc = "parsed" =>
        IF IsJsonArray(relays)
        THEN LET elems == JsonParse(relays).val.elems
                 keep == {k \in 1..Len(elems) :
                            elems[k].type = "string" /\ Trim(elems[k].str) # <<>>}
             IN  /\ Len(relayArray) = Cardinality(keep)
                 /\ \A k \in keep :
                       relayArray[Cardinality({j \in keep : j <= k})] = elems[k].str
        ELSE LET starts == ContentStarts(relays, 0)
             IN  /\ Len(relayArray) = Len(starts)
                 /\ \A k \in 1..Len(starts) :
                       relayArray[k] = Trim(SegmentAfter(relays, starts[k]))

\* C10 witness: the JSON array [1] holds no string: the result is empty and
\* the comma-separated parse, which would give "[1]", is not used.
C10_Witness ==
    /\ epc = "parsed"
    /\ relays = <<"[", "1", "]">>
    /\ relayArray = <<>>

---------------------------------------------------------------------------
(* Claims about the failure path of publishEvent, under SpecPublish.       *)

\* the outcomes of the catch block for the address list rl and the thrown
\* value e, written out: one failure per address, in order, all with the
\* text of e when e is an Error and 'Unknown error' otherwise
AllFailedWith(rl, e) ==
    [k \in 1..Len(rl) |->
        [relay |-> rl[k], success |-> FALSE,
         error |-> IF e.isError THEN e.message ELSE "Unknown error"]]

\* C11: when relayPool.publish throws synchronously, or its promise rejects
\* before the timer fires, publishEvent returns one failed outcome per input
\* address, in input order, each carrying the same reason: the message of the
\* thrown value when it is an Error, 'Unknown error' otherwise.
C11_TransportFailureFailsAll ==
    [][\A c \in Calls, e \in PoolErrors :
          /\ (\E rl \in RelayLists : PublishCall(c, EventOf(c), rl, e))
                => /\ ppc'[c] = "returned"
                   /\ results'[c] = AllFailedWith(pRelays'[c], e)
          /\ (race[c] = "pending" /\ TransportRejects(c, e))
                => /\ ppc'[c] = "returned"
                   /\ results'[c] = AllFailedWith(pRelays[c], e)]_vars

\* C11 witness: the pool rejected with a value that is no Error while the
\* timer was still armed, and both addresses failed with 'Unknown error'.
C11_Witness ==
    /\ ppc[1] = "returned"
    /\ transport[1] = "rejected"
    /\ race[1] = "transport"
    /\ timer[1] = "armed"
    /\ pRelays[1] = <<<<"a">>, <<"1">>>>
    /\ results[1] = [k \in 1..2 |->
          [relay |-> pRelays[1][k], success |-> FALSE, error |-> "Unknown error"]]

---------------------------------------------------------------------------
(* Claims about concurrent publishEvent calls, under SpecConcurrent.       *)

\* everything that belongs to call c
CallState(c) ==
    <<ppc[c], pRelays[c], pEvent[c], transport[c], sent[c], answers[c],
      timer[c], timers[c], race[c], results[c]>>

\* C12: concurrent publishEvent calls are independent. A step that changes
\* one call (its dispatch, an answer or the settling of its pool promise, the
\* firing of its timer) leaves every other call as it was, and a call decided
\* by a timer was decided by its own timer and holds the timeout failures of
\* its own addresses, whatever the other calls did.
C12_CallsIndependent ==
    /\ [][\A c, d \in Calls :
            (c # d /\ CallState(c)' # CallState(c)) => CallState(d)' = CallState(d)]_vars
    /\ [](\A c \in Calls :
            race[c] = "timer"
               => /\ timer[c] = "fired"
                  /\ ppc[c] = "returned"
                  /\ results[c] = AllFailedWith(pRelays[c], TimeoutError))

\* C12 witness: two calls to the same address overlapped; the first ran into
\* its timeout, the second returned the pool's acceptance afterwards with its
\* own timer still armed.
C12_Witness ==
    /\ pRelays[1] = << <<"a">> >>
    /\ pRelays[2] = << <<"a">> >>
    /\ ppc[1] = "returned"
    /\ race[1] = "timer"
    /\ results[1] = AllFailedWith(pRelays[1], TimeoutError)
    /\ ppc[2] = "returned"
    /\ race[2] = "transport"
    /\ timer[2] = "armed"
    /\ results[2][1].success

---------------------------------------------------------------------------
(* Claims about what publishEvent does to the pool, the timer and its      *)
(* arguments, under SpecPublish.                                           *)

\* C13: a publishEvent call invokes relayPool.publish exactly once, with the
\* whole address list, and never again: whatever happens afterwards
\* (rejection, synchronous throw, timeout, late settling) the pool has been
\* handed the list once.
C13_PoolInvokedOnce ==
    \A c \in Calls :
        /\ ppc[c] = "idle" => sent[c] = <<>>
        /\ ppc[c] # "idle"
              => /\ Len(sent[c]) = 1
                 /\ sent[c][1].relays = pRelays[c]

\* C13 witness: the pool rejected a publish to three addresses and the timer
\* fired afterwards; the pool was invoked once, with the three addresses.
C13_Witness ==
    /\ ppc[1] = "returned"
    /\ transport[1] = "rejected"
    /\ timer[1] = "fired"
    /\ Len(pRelays[1]) = 3
    /\ Len(sent[1]) = 1
    /\ sent[1][1].relays = pRelays[1]

\* C14 as stated: every publishEvent call that has started has created
\* exactly one timer.
C14_ExactlyOneTimer ==
    \A c \in Calls : ppc[c] # "idle" => timers[c] = 1

\* C14: a publishEvent call creates at most one timer. It creates exactly one,
\* when the list is handed to the pool, unless relayPool.publish throws
\* synchronously: then setTimeout is never reached and the call has no timer.
\* No answer of an endpoint and no settling creates another one.
C14_OneTimerUnlessPoolThrows ==
    \A c \in Calls :
        /\ timers[c] = 0 <=> timer[c] = "none"
        /\ ppc[c] = "idle" => timers[c] = 0
        /\ ppc[c] # "idle" => timers[c] = (IF transport[c] = "threw" THEN 0 ELSE 1)

\* C14 witness: three endpoints answered one by one and the pool resolved;
\* the call has created one timer, which is still armed.
C14_Witness ==
    /\ ppc[1] = "returned"
    /\ Len(pRelays[1]) = 3
    /\ \A k \in 1..3 : answers[1][k] # "none"
    /\ transport[1] = "resolved"
    /\ timer[1] = "armed"
    /\ timers[1] = 1

---------------------------------------------------------------------------
(* Further claims about parseRelayInput, under SpecNormalize.              *)

\* C15: parseRelayInput raises no error for any input string: text that is
\* no JSON, JSON that is no array, the empty string and strings of commas
\* and blanks all end in a returned sequence of strings, possibly empty.
C15_NormalizeNeverRaises ==
    /\ epc # "parseThrew"
    /\ epc = "parsed"
          => /\ relayArray = parseRelayInputOutcome(relays).value
             /\ \A k \in 1..Len(relayArray) :
                   \A j \in 1..Len(relayArray[k]) : relayArray[k][j] \in Chars

\* C15 witness: an input of commas and a blank is no JSON, so JSON.parse
\* threw; the call returned all the same, with the empty sequence.
C15_Witness ==
    /\ epc = "parsed"
    /\ relays = <<",", " ", ",">>
    /\ ~JsonParse(relays).ok
    /\ relayArray = <<>>

---------------------------------------------------------------------------
(* Further claims about Nostrobots.execute, under Spec.                    *)

\* C16: in every record execute has pushed, successCount is the number of
\* outcomes of sendResults with success = true, totalRelays is the length of
\* the item's parsed relay list, sendResults holds totalRelays outcomes, and
\* successCount <= totalRelays. The record of item k is the k-th record.
C16_RecordFields ==
    \A k \in 1..Len(returnData) :
        LET rec == returnData[k]
        IN  /\ rec.sendResults = results[k]
            /\ rec.successCount =
                  Cardinality({j \in 1..Len(rec.sendResults) : rec.sendResults[j].success})
            /\ rec.totalRelays = Len(pRelays[k])
            /\ (k = i - 1 /\ epc \in {"loop", "returned"})
                  => /\ pRelays[k] = parseRelayInput(relays)
                     /\ rec.totalRelays = Len(relayArray)
            /\ Len(rec.sendResults) = rec.totalRelays
            /\ rec.successCount <= rec.totalRelays

\* C16 witness: the record of an item published to two relays, one of which
\* accepted, followed by the record of an item whose publish timed out.
C16_Witness ==
    /\ Len(returnData) = 2
    /\ returnData[1].totalRelays = 2
    /\ returnData[1].successCount = 1
    /\ Len(returnData[1].sendResults) = 2
    /\ returnData[2].totalRelays = 2
    /\ returnData[2].successCount = 0
    /\ race[2] = "timer"

---------------------------------------------------------------------------
(* The arguments of publishEvent, under SpecPublish.                       *)

\* C17: publishEvent leaves its arguments as they were given. The event
\* handed to the pool is the event given to the call, the list handed to the
\* pool is the list given to the call, and from the call on, through the
\* return on any path and after it, the event and the address list of the
\* call keep the value they were given.
C17_ArgumentsUnchanged ==
    /\ [](\A c \in Calls :
            ppc[c] # "idle"
               => /\ pEvent[c] = EventOf(c)
                  /\ sent[c] = <<[relays |-> pRelays[c], event |-> EventOf(c)]>>)
    /\ [][\A rl \in RelayLists, e \in {NoThrow} \cup PoolErrors :
            PublishDirect(rl, e) => pRelays'[1] = rl /\ sent'[1][1].relays = rl]_vars
    /\ [][\A c \in Calls :
            ppc[c] # "idle" => pEvent'[c] = pEvent[c] /\ pRelays'[c] = pRelays[c]]_vars

\* C17 witness: a call with two addresses has returned on the timeout path
\* and the pool has rejected afterwards; event and list are the ones given.
C17_Witness ==
    /\ ppc[1] = "returned"
    /\ race[1] = "timer"
    /\ transport[1] = "rejected"
    /\ pEvent[1] = EventOf(1)
    /\ pRelays[1] = << <<"a">>, <<"1">> >>
    /\ sent[1] = <<[relays |-> << <<"a">>, <<"1">> >>, event |-> EventOf(1)]>>

---------------------------------------------------------------------------
(* The loop of Nostrobots.execute, under Spec.                             *)

\* C18: execute handles its items strictly one after another. publishEvent
\* for an item is called only when the call of the item before has returned
\* with at least minSuccessfulRelays successes and that item's record has
\* been pushed, so at most one call is awaited at any time. Once execute has
\* thrown it stays thrown: no later item is ever published and execute never
\* returns, so no record is returned, not even those of the items published
\* before; it returns only with one record per item.
C18_SequentialAllOrNothing ==
    /\ [](\A c \in Calls :
            /\ ppc[c] # "idle"
                  => /\ c <= i
                     /\ \A d \in 1..(c - 1) : ppc[d] = "returned" /\ Len(returnData) >= d
            /\ ppc[c] = "awaiting" => c = i /\ epc = "awaitPublish")
    /\ [][\A c \in Calls :
            (c > 1 /\ ppc[c] = "idle" /\ ppc'[c] # "idle")
               => /\ ppc[c - 1] = "returned"
                  /\ Successes(results[c - 1]) >= minSuccessfulRelays
                  /\ Len(returnData) = c - 1]_vars
    /\ [](epc = "threw" => \A d \in Calls : d > i => ppc[d] = "idle")
    /\ [][epc = "threw"
            => /\ epc' = "threw"
               /\ \A d \in Calls : d > i => ppc'[d] = "idle"]_vars
    /\ [](epc = "returned" => Len(returnData) = NumItems /\ ~thrown.raised)

\* C18 witness: the first item was published with a success and its record
\* pushed; the second item missed its threshold and execute threw.
C18_Witness ==
    /\ epc = "threw"
    /\ thrown.raised
    /\ i = 2
    /\ ppc[2] = "returned"
    /\ Len(returnData) = 1
    /\ returnData[1].successCount >= 1

\* C19: for an item whose parsed relay list is empty, publishEvent returns
\* the empty sequence, so the item has 0 successes: execute throws the
\* threshold error (successful 0, total 0) when minSuccessfulRelays >= 1 and
\* pushes the record with successCount 0 and totalRelays 0 only when
\* minSuccessfulRelays <= 0. Whatever the list and the outcomes, execute
\* throws only with minSuccessfulRelays >= 1: with 0 (or less) it never does.
C19_EmptyListAndZeroThreshold ==
    /\ (relayArray = <<>> /\ epc = "awaitPublish" /\ ppc[i] = "returned")
          => results[i] = <<>>
    /\ (relayArray = <<>> /\ epc = "threw")
          => /\ results[i] = <<>>
             /\ minSuccessfulRelays >= 1
             /\ thrown.successful = 0
             /\ thrown.total = 0
    /\ (relayArray = <<>> /\ epc \in {"loop", "returned"} /\ i > 1)
          => /\ minSuccessfulRelays <= 0
             /\ returnData[i - 1].sendResults = <<>>
             /\ returnData[i - 1].successCount = 0
             /\ returnData[i - 1].totalRelays = 0
    /\ epc = "threw" => minSuccessfulRelays >= 1

\* C19 witness: a first item with no address and a minimum of 0 gave the
\* record with 0 of 0; a second item with no address and a minimum of 1
\* made execute throw with required 1, successful 0, total 0.
C19_Witness ==
    /\ i = 2
    /\ Len(returnData) = 1
    /\ returnData[1].successCount = 0
    /\ returnData[1].totalRelays = 0
    /\ relayArray = <<>>
    /\ epc = "threw"
    /\ thrown = [required |-> 1, successful |-> 0, total |-> 0, raised |-> TRUE]

---------------------------------------------------------------------------
(* Claims about deduplicateEvents, under SpecDedup.                        *)

\* the positions of the input at which an id occurs for the first time
FirstOccurrences(evs) ==
    {k \in 1..Len(evs) : \A j \in 1..(k - 1) : evs[j].id # evs[k].id}

\* C20: deduplicateEvents returns the input without the events whose id
\* occurred earlier: no two events of the output share an id, the output is
\* made of the first occurrence of every id of the input, in the order of
\* the input, and deduplicating the output again gives the output.
C20_FirstOccurrencesInOrder ==
    epc = "deduped"
       => LET first == FirstOccurrences(events)
          IN  /\ \A m, n \in 1..Len(deduplicated) :
                    deduplicated[m].id = deduplicated[n].id => m = n
              /\ Len(deduplicated) = Cardinality(first)
              /\ \A k \in first :
                    deduplicated[Cardinality({j \in first : j <= k})] = events[k]
              /\ deduplicateEvents(deduplicated) = deduplicated

\* C20 witness: of three events, the third repeats the id of the first with
\* another content; the output is the first two.
C20_Witness ==
    /\ epc = "deduped"
    /\ events = <<[id |-> "x", content |-> "p"], [id |-> "y", content |-> "p"],
                  [id |-> "x", content |-> "q"]>>
    /\ deduplicated = <<[id |-> "x", content |-> "p"], [id |-> "y", content |-> "p"]>>

=============================================================================
